---- MODULE Spec2Model ----
(***************************************************************************)
(* Model of stave_backend/lib/utils.py: the pack transcoder                *)
(* (transform_pack), the three mutators (add_entry_to_doc,                 *)
(* edit_entry_in_doc, delete_entry_from_doc) and OntoDefinitions.          *)
(*                                                                         *)
(* Python values are modelled as follows.                                  *)
(*   str         a sequence of one-character strings when the code looks   *)
(*               inside it (version strings, ids after str()); a TLA+      *)
(*               string when it is only compared (type names, keys).       *)
(*   int         an integer (tids, spans, slot indices).                   *)
(*   dict        a function with a string domain; a missing key is a key   *)
(*               outside DOMAIN.  The insertion-ordered "entries" dict of  *)
(*               the compact format is a sequence of [name, list] pairs,   *)
(*               because delete iterates it in order.                      *)
(*   list        a sequence; Python index k is TLA+ index k+1.             *)
(*   exception   an outcome record with ok = FALSE and the exception name. *)
(***************************************************************************)
EXTENDS Integers, Sequences, FiniteSets, TLC

VARIABLES
    textPack,   \* doc.textPack as saved in the document store
    last,       \* the last handler call: its inputs, the pack it loaded, its outcome
    pc,         \* per concurrent request: "idle", "fetched"
    fetched,    \* per concurrent request: the textPack its Document object holds
    hist        \* the saves of the concurrent requests, in order

vars == <<textPack, last, pc, fetched, hist>>

----------------------------------------------------------------------------
(* Bounds of the model *)

\* Largest total number of entries a document may hold before add is refused.
MaxEntries == 2
\* Stand-in for the interpreter's recursion limit; every acyclic parent chain
\* of the modelled ontologies is shorter.
RecursionLimit == 6
\* Number of mutations the concurrent requests perform altogether.
MaxSaves == 2

----------------------------------------------------------------------------
(* str() and packaging.version.Version *)

Digits == <<"0", "1", "2", "3", "4", "5", "6", "7", "8", "9">>

DigitVal(c) == (CHOOSE d \in 1..10 : Digits[d] = c) - 1

\* str(n) for a non-negative int: its decimal digits.
RECURSIVE str(_)
str(n) == IF n < 10 THEN <<Digits[n + 1]>>
          ELSE Append(str(n \div 10), Digits[(n % 10) + 1])

\* The release tuple of a version string "N(.N)*".
RECURSIVE ParseRelease(_, _, _, _)
ParseRelease(s, i, acc, cur) ==
    IF i > Len(s) THEN Append(acc, cur)
    ELSE IF s[i] = "." THEN ParseRelease(s, i + 1, Append(acc, cur), 0)
    ELSE ParseRelease(s, i + 1, acc, cur * 10 + DigitVal(s[i]))

\* packaging's _cmpkey drops the trailing zeros of the release.
RECURSIVE StripTrailingZeros(_)
StripTrailingZeros(r) ==
    IF Len(r) > 0 /\ r[Len(r)] = 0 THEN StripTrailingZeros(SubSeq(r, 1, Len(r) - 1))
    ELSE r

\* Version(s): the comparison key of a plain release version.
Version(s) == StripTrailingZeros(ParseRelease(s, 1, <<>>, 0))

\* Python tuple ordering a < b.
RECURSIVE TupleLess(_, _)
TupleLess(a, b) ==
    IF Len(b) = 0 THEN FALSE
    ELSE IF Len(a) = 0 THEN TRUE
    ELSE IF a[1] # b[1] THEN a[1] < b[1]
    ELSE TupleLess(Tail(a), Tail(b))

DefaultVersion == <<"0", ".", "0", ".", "0">>
CutoffVersion == <<"0", ".", "0", ".", "2">>

\* pack_json.get("pack_version", "0.0.0")
GetPackVersion(pack_json) ==
    IF "pack_version" \in DOMAIN pack_json THEN pack_json["pack_version"]
    ELSE DefaultVersion

\* Character order of str < str, used by the mutant of the version test.
CharOrd(c) == IF c = "." THEN 0 ELSE 1 + DigitVal(c)

RECURSIVE StringLess(_, _)
StringLess(a, b) ==
    IF Len(b) = 0 THEN FALSE
    ELSE IF Len(a) = 0 THEN TRUE
    ELSE IF a[1] # b[1] THEN CharOrd(a[1]) < CharOrd(b[1])
    ELSE StringLess(Tail(a), Tail(b))

add_is_legacy_StringOrder(pack_json) ==
    StringLess(GetPackVersion(pack_json), CutoffVersion)

\* The version test of each of the four operations.
transform_is_legacy(pack_json) ==
    TupleLess(Version(GetPackVersion(pack_json)), Version(CutoffVersion))

add_is_legacy(pack_json) ==
    TupleLess(Version(GetPackVersion(pack_json)), Version(CutoffVersion))

edit_is_legacy(pack_json) ==
    TupleLess(Version(GetPackVersion(pack_json)), Version(CutoffVersion))

delete_is_legacy(pack_json) ==
    TupleLess(Version(GetPackVersion(pack_json)), Version(CutoffVersion))

----------------------------------------------------------------------------
(* OntoDefinitions *)

ANNOTATION == "annotation"
LINK == "link"
GROUP == "group"
UNKNOWN == "unknown"
RecursionError == "RecursionError"

AnnotationRoot == "forte.data.ontology.top.Annotation"
LinkRoot == "forte.data.ontology.top.Link"
GroupRoot == "forte.data.ontology.top.Group"

\* __init__: entry_name -> definition; a later definition of a name wins.
OntoDefinitions(raw_ontology) ==
    [n \in {raw_ontology[i]["entry_name"] : i \in DOMAIN raw_ontology} |->
        LET i == CHOOSE i \in DOMAIN raw_ontology :
                    /\ raw_ontology[i]["entry_name"] = n
                    /\ \A j \in DOMAIN raw_ontology :
                          raw_ontology[j]["entry_name"] = n => j <= i
        IN raw_ontology[i]]

\* self._entries.get(entry_name, {}).get(key); "" stands for None.
DefGet(onto_defs, entry_name, key) ==
    IF entry_name \in DOMAIN onto_defs /\ key \in DOMAIN onto_defs[entry_name]
    THEN onto_defs[entry_name][key]
    ELSE ""

\* _is_parent_match: "True", "False", or RecursionError once the recursion is
\* deeper than the interpreter allows.
RECURSIVE is_parent_match(_, _, _, _)
is_parent_match(onto_defs, entry_name, match_name, depth) ==
    IF entry_name = match_name THEN "True"
    ELSE IF DefGet(onto_defs, entry_name, "parent_entry") = "" THEN "False"
    ELSE IF depth >= RecursionLimit THEN RecursionError
    ELSE is_parent_match(onto_defs,
            DefGet(onto_defs, entry_name, "parent_entry"), match_name, depth + 1)

\* get_entry_type: a kind, or RecursionError when a match raises.
get_entry_type(onto_defs, entry_name) ==
    LET a == is_parent_match(onto_defs, entry_name, AnnotationRoot, 0) IN
    IF a = "True" THEN ANNOTATION
    ELSE IF a = RecursionError THEN RecursionError
    ELSE LET l == is_parent_match(onto_defs, entry_name, LinkRoot, 0) IN
    IF l = "True" THEN LINK
    ELSE IF l = RecursionError THEN RecursionError
    ELSE LET g == is_parent_match(onto_defs, entry_name, GroupRoot, 0) IN
    IF g = "True" THEN GROUP
    ELSE IF g = RecursionError THEN RecursionError
    ELSE UNKNOWN

\* get_attribute_names: the set of declared attribute names.
get_attribute_names(onto_defs, entry_name) ==
    IF entry_name \notin DOMAIN onto_defs THEN {}
    ELSE IF "attributes" \notin DOMAIN onto_defs[entry_name] THEN {}
    ELSE {onto_defs[entry_name]["attributes"][i]["name"] :
            i \in DOMAIN onto_defs[entry_name]["attributes"]}

\* Keys of an entry's state that are declared attributes of its type.
get_attributes(onto_defs, entry) ==
    LET attr_set == get_attribute_names(onto_defs, entry["py/object"])
        st == entry["py/state"]
    IN [k \in (DOMAIN st) \cap attr_set |-> st[k]]

\* get_group_type: "annotation", "link", "ValueError" or RecursionError.
get_group_type(onto_defs, entry_name) ==
    LET entry_type == get_entry_type(onto_defs,
                         DefGet(onto_defs, entry_name, "member_type")) IN
    IF entry_type = ANNOTATION THEN "annotation"
    ELSE IF entry_type = LINK THEN "link"
    ELSE IF entry_type = RecursionError THEN RecursionError
    ELSE "ValueError"

----------------------------------------------------------------------------
(* Outcomes of a handler: the in-memory pack_json when it returned or raised *)

\* json.loads succeeds on the stored text; an unparseable text is modelled as
\* a value with the single key "garbage".
Parseable(text) == "garbage" \notin DOMAIN text

Return(pack_json) == [ok |-> TRUE, err |-> "", pack_json |-> pack_json]
Raise(err, pack_json) == [ok |-> FALSE, err |-> err, pack_json |-> pack_json]

\* JSON null / Python None in an attribute slot.
None == "null"

\* The 0-based position of x in the sequence s.
IndexOf(s, x) == (CHOOSE i \in DOMAIN s : s[i] = x) - 1

\* s without its element at 0-based index k.
DelAt(s, k) == SubSeq(s, 1, k) \o SubSeq(s, k + 2, Len(s))

Max(S) == CHOOSE m \in S : \A n \in S : n <= m
Min(S) == CHOOSE m \in S : \A n \in S : m <= n

\* The first slot after the four positional columns.
SlotOffset == 4

\* Position of the bucket named entry_type in the ordered "entries" dict, 0 if none.
BucketPos(entries, entry_type) ==
    IF \E b \in DOMAIN entries : entries[b].name = entry_type
    THEN CHOOSE b \in DOMAIN entries : entries[b].name = entry_type
    ELSE 0

----------------------------------------------------------------------------
(* add_entry_to_doc *)

\* fields[entry_type] as add creates it: the i-th enumerated name at slot 4 + i.
NewFieldEntry(attr_order) ==
    [attributes |-> [a \in {attr_order[i] : i \in DOMAIN attr_order} |->
                        SlotOffset + IndexOf(attr_order, a)]]

\* The kind-specific prefix of the positional array; <<>> for group and unknown.
AddPrefix(parent_type, entry, entry_type) ==
    LET st == entry["py/state"] IN
    IF parent_type = ANNOTATION
    THEN <<st["_span"]["begin"], st["_span"]["end"], st["_tid"], entry_type>>
    ELSE IF parent_type = LINK
    THEN <<st["_parent"], st["_child"], st["_tid"], entry_type>>
    ELSE <<>>

\* Keys the prefix reads from the entry's state.
PrefixKeys(parent_type) ==
    IF parent_type = ANNOTATION THEN {"_span", "_tid"}
    ELSE IF parent_type = LINK THEN {"_parent", "_child", "_tid"}
    ELSE {}

\* The compact branch of add after the field schema is settled (lines 196-220).
AddCompactRow(pack1, entry, entry_type, parent_type) ==
    LET attr_index_map == pack1["fields"][entry_type]["attributes"]
        st == entry["py/state"]
    IN
    IF ~(PrefixKeys(parent_type) \subseteq DOMAIN st) THEN Raise("KeyError", pack1)
    ELSE
    LET padded == AddPrefix(parent_type, entry, entry_type)
                    \o [i \in 1..Cardinality(DOMAIN attr_index_map) |-> None]
        carried == (DOMAIN st) \cap (DOMAIN attr_index_map)
        new_entry == [i \in 1..Len(padded) |->
                        IF \E a \in carried : attr_index_map[a] = i - 1
                        THEN st[CHOOSE a \in carried : attr_index_map[a] = i - 1]
                        ELSE padded[i]]
    IN
    IF \E a \in carried : attr_index_map[a] >= Len(padded) THEN Raise("IndexError", pack1)
    ELSE IF "entries" \notin DOMAIN pack1 THEN Raise("KeyError", pack1)
    ELSE
    LET entries0 == pack1["entries"]
        entries1 == IF BucketPos(entries0, entry_type) = 0
                    THEN Append(entries0, [name |-> entry_type, list |-> <<>>])
                    ELSE entries0
        b == BucketPos(entries1, entry_type)
    IN Return([pack1 EXCEPT !["entries"] =
                 [entries1 EXCEPT ![b].list = Append(@, new_entry)]])

\* Mutant: the field schema of the type is rebuilt from the ontology on every add.
AddCompact_RebuildFields(pack_json, entry, entry_type, parent_type, attr_order) ==
    IF "fields" \notin DOMAIN pack_json THEN Raise("KeyError", pack_json)
    ELSE AddCompactRow(
            [pack_json EXCEPT !["fields"] =
                (entry_type :> NewFieldEntry(attr_order)) @@ pack_json["fields"]],
            entry, entry_type, parent_type)

\* The compact branch of add (lines 188-220): fields[entry_type] is created
\* only when the type has none.
AddCompact(pack_json, entry, entry_type, parent_type, attr_order) ==
    IF "fields" \notin DOMAIN pack_json THEN Raise("KeyError", pack_json)
    ELSE AddCompactRow(
            [pack_json EXCEPT !["fields"] =
                IF entry_type \in DOMAIN pack_json["fields"] THEN pack_json["fields"]
                ELSE (entry_type :> NewFieldEntry(attr_order)) @@ pack_json["fields"]],
            entry, entry_type, parent_type)

\* add_entry_to_doc up to json.dumps: the pack to save, or the exception.
\* attr_order is the order in which list(set) enumerates the attribute names.
add_entry_to_doc(pack_json, raw_ontology, entry, attr_order) ==
    IF ~Parseable(pack_json) THEN Raise("JSONDecodeError", pack_json) ELSE
    LET onto_defs == OntoDefinitions(raw_ontology)
        entry_type == entry["py/object"]
        parent_type == get_entry_type(onto_defs, entry_type)
    IN
    IF parent_type = RecursionError THEN Raise(RecursionError, pack_json)
    ELSE IF add_is_legacy(pack_json) THEN
        LET list_name == IF parent_type = ANNOTATION THEN "annotations"
                         ELSE IF parent_type = LINK THEN "links" ELSE ""
        IN IF list_name = "" THEN Return(pack_json)
           ELSE IF list_name \notin DOMAIN pack_json THEN Raise("KeyError", pack_json)
           ELSE Return([pack_json EXCEPT ![list_name] = Append(@, entry)])
    ELSE AddCompact(pack_json, entry, entry_type, parent_type, attr_order)

----------------------------------------------------------------------------
(* edit_entry_in_doc *)

\* item["py/state"]["_tid"] can be read from a tagged entry.
HasTid(item) == "py/state" \in DOMAIN item /\ "_tid" \in DOMAIN item["py/state"]

\* The legacy loop of edit (lines 241-243): every item whose id matches is
\* replaced; the loop has no break.  A KeyError stops it at the first item
\* that has no state, with the earlier replacements made.
EditLegacyList(list, entry) ==
    LET bad == {i \in DOMAIN list : ~HasTid(list[i])}
        stop == IF bad = {} THEN Len(list) + 1 ELSE Min(bad)
        hit(i) == /\ i < stop
                  /\ HasTid(entry)
                  /\ str(list[i]["py/state"]["_tid"]) = str(entry["py/state"]["_tid"])
        out == [i \in DOMAIN list |-> IF hit(i) THEN entry ELSE list[i]]
    IN IF list = <<>> THEN [ok |-> TRUE, list |-> list]
       ELSE IF bad # {} \/ ~HasTid(entry) THEN [ok |-> FALSE, list |-> out]
       ELSE [ok |-> TRUE, list |-> out]

\* edit_entry_in_doc up to json.dumps.
edit_entry_in_doc(pack_json, raw_ontology, entry) ==
    IF ~Parseable(pack_json) THEN Raise("JSONDecodeError", pack_json) ELSE
    LET onto_defs == OntoDefinitions(raw_ontology)
        entry_type == entry["py/object"]
        parent_type == get_entry_type(onto_defs, entry_type)
    IN
    IF parent_type = RecursionError THEN Raise(RecursionError, pack_json)
    ELSE IF edit_is_legacy(pack_json) THEN
        LET list_name == IF parent_type = ANNOTATION THEN "annotations"
                         ELSE IF parent_type = LINK THEN "links" ELSE ""
        IN IF list_name = "" THEN Return(pack_json)
           ELSE IF list_name \notin DOMAIN pack_json THEN Raise("KeyError", pack_json)
           ELSE LET r == EditLegacyList(pack_json[list_name], entry)
                    pack1 == [pack_json EXCEPT ![list_name] = r.list]
                IN IF r.ok THEN Return(pack1) ELSE Raise("KeyError", pack1)
    ELSE
        \* Compact: the items of a bucket are positional arrays (lists), and
        \* item["py/state"] on a list raises TypeError at the first item.
        IF "entries" \notin DOMAIN pack_json THEN Raise("KeyError", pack_json)
        ELSE IF BucketPos(pack_json["entries"], entry_type) = 0
        THEN Raise("KeyError", pack_json)
        ELSE IF pack_json["entries"][BucketPos(pack_json["entries"], entry_type)].list = <<>>
        THEN Return(pack_json)
        ELSE Raise("TypeError", pack_json)

----------------------------------------------------------------------------
(* delete_entry_from_doc *)

\* The 0-based index the scan of one list leaves in delete_index (lines 270-272
\* and 280-282): the last index whose id matches, else the value it had.
ScanLast(ids, entry_tid, delete_index) ==
    LET hits == {i \in DOMAIN ids : ids[i] = entry_tid}
    IN IF hits = {} THEN delete_index ELSE Max(hits) - 1

\* The compact loop of delete over the buckets from position b on (lines
\* 277-284).  delete_index is set before the loop and never reset, so a
\* bucket without a match reuses the index an earlier bucket left.
RECURSIVE DeleteCompact(_, _, _, _, _, _)
DeleteCompact(onto_defs, entries, b, delete_index, entry_tid, parent_type) ==
    IF b > Len(entries) THEN [ok |-> TRUE, err |-> "", entries |-> entries]
    ELSE
    LET kind == get_entry_type(onto_defs, entries[b].name) IN
    IF kind = RecursionError
    THEN [ok |-> FALSE, err |-> RecursionError, entries |-> entries]
    ELSE IF kind # parent_type
    THEN DeleteCompact(onto_defs, entries, b + 1, delete_index, entry_tid, parent_type)
    ELSE
    LET list == entries[b].list IN
    IF \E i \in DOMAIN list : Len(list[i]) < 3
    THEN [ok |-> FALSE, err |-> "IndexError", entries |-> entries]
    ELSE
    LET ids == [i \in DOMAIN list |-> str(list[i][3])]
        idx == ScanLast(ids, entry_tid, delete_index)
    IN IF idx < 0
       THEN DeleteCompact(onto_defs, entries, b + 1, idx, entry_tid, parent_type)
       ELSE IF idx >= Len(list)
       THEN [ok |-> FALSE, err |-> "IndexError", entries |-> entries]
       ELSE DeleteCompact(onto_defs,
                [entries EXCEPT ![b].list = DelAt(list, idx)],
                b + 1, idx, entry_tid, parent_type)

\* The legacy branch of delete (lines 264-274).  entry_tid is a str.
DeleteLegacy(pack_json, entry_tid, parent_type) ==
    LET list_name == IF parent_type = ANNOTATION THEN "annotations"
                     ELSE IF parent_type = LINK THEN "links" ELSE ""
    IN IF list_name = "" THEN Return(pack_json)
       ELSE IF list_name \notin DOMAIN pack_json THEN Raise("KeyError", pack_json)
       ELSE LET list == pack_json[list_name] IN
            IF \E i \in DOMAIN list : ~HasTid(list[i]) THEN Raise("KeyError", pack_json)
            ELSE LET ids == [i \in DOMAIN list |-> str(list[i]["py/state"]["_tid"])]
                     delete_index == ScanLast(ids, entry_tid, -1)
                 IN IF delete_index >= 0
                    THEN Return([pack_json EXCEPT ![list_name] = DelAt(list, delete_index)])
                    ELSE Return(pack_json)

\* delete_entry_from_doc up to json.dumps.
delete_entry_from_doc(pack_json, raw_ontology, entry_tid, parent_type) ==
    IF ~Parseable(pack_json) THEN Raise("JSONDecodeError", pack_json) ELSE
    LET onto_defs == OntoDefinitions(raw_ontology) IN
    IF delete_is_legacy(pack_json) THEN DeleteLegacy(pack_json, entry_tid, parent_type)
    ELSE IF "entries" \notin DOMAIN pack_json THEN Raise("KeyError", pack_json)
    ELSE LET r == DeleteCompact(onto_defs, pack_json["entries"], 1, -1,
                                entry_tid, parent_type)
             pack1 == [pack_json EXCEPT !["entries"] = r.entries]
         IN IF r.ok THEN Return(pack1) ELSE Raise(r.err, pack1)

----------------------------------------------------------------------------
(* transform_pack *)

\* annotation.get("py/state") is neither missing nor empty.
HasState(item) == "py/state" \in DOMAIN item /\ DOMAIN item["py/state"] # {}

\* The first element of a sequence of error names that is not "", else "".
FirstErr(errs) ==
    IF \E i \in DOMAIN errs : errs[i] # ""
    THEN errs[Min({i \in DOMAIN errs : errs[i] # ""})]
    ELSE ""

RECURSIVE Flatten(_)
Flatten(ss) == IF ss = <<>> THEN <<>> ELSE Head(ss) \o Flatten(Tail(ss))

StrAll(tids) == [i \in DOMAIN tids |-> str(tids[i])]

\* Legacy branch, lines 87-118: the error of one tagged entry, "" if none.
LegacyErr(onto_defs, item, keys, is_group) ==
    IF ~HasState(item) THEN ""
    ELSE IF ~(keys \subseteq DOMAIN item["py/state"]) THEN "KeyError"
    ELSE IF is_group /\ get_group_type(onto_defs, item["py/object"])
                            \notin {"annotation", "link"}
    THEN get_group_type(onto_defs, item["py/object"])
    ELSE ""

LegacyAnnotation(onto_defs, item) ==
    [span |-> [begin |-> item["py/state"]["_span"]["begin"],
               end |-> item["py/state"]["_span"]["end"]],
     id |-> str(item["py/state"]["_tid"]),
     legendId |-> item["py/object"],
     attributes |-> get_attributes(onto_defs, item)]

LegacyLink(onto_defs, item) ==
    [id |-> str(item["py/state"]["_tid"]),
     fromEntryId |-> str(item["py/state"]["_parent"]),
     toEntryId |-> str(item["py/state"]["_child"]),
     legendId |-> item["py/object"],
     attributes |-> get_attributes(onto_defs, item)]

LegacyGroup(onto_defs, item) ==
    [id |-> str(item["py/state"]["_tid"]),
     members |-> StrAll(item["py/state"]["_members"]),
     memberType |-> get_group_type(onto_defs, item["py/object"]),
     legendId |-> item["py/object"],
     attributes |-> get_attributes(onto_defs, item)]

DecodeLegacy(pack_json, onto_defs) ==
    IF ~({"annotations", "links", "groups"} \subseteq DOMAIN pack_json)
    THEN [ok |-> FALSE, err |-> "KeyError"]
    ELSE
    LET A == pack_json["annotations"]
        L == pack_json["links"]
        G == pack_json["groups"]
        err == FirstErr(
            [i \in DOMAIN A |-> LegacyErr(onto_defs, A[i], {"_span", "_tid"}, FALSE)]
            \o [i \in DOMAIN L |->
                    LegacyErr(onto_defs, L[i], {"_tid", "_parent", "_child"}, FALSE)]
            \o [i \in DOMAIN G |-> LegacyErr(onto_defs, G[i], {"_tid", "_members"}, TRUE)])
        As == SelectSeq(A, HasState)
        Ls == SelectSeq(L, HasState)
        Gs == SelectSeq(G, HasState)
    IN IF err # "" THEN [ok |-> FALSE, err |-> err]
       ELSE [ok |-> TRUE, err |-> "",
             annotations |-> [i \in DOMAIN As |-> LegacyAnnotation(onto_defs, As[i])],
             links |-> [i \in DOMAIN Ls |-> LegacyLink(onto_defs, Ls[i])],
             groups |-> [i \in DOMAIN Gs |-> LegacyGroup(onto_defs, Gs[i])]]

\* Compact branch, lines 129-159: the error of one positional array, "" if none.
CompactErr(onto_defs, fields, entry_type, parent_type, entry_data) ==
    IF entry_type \notin DOMAIN fields THEN "KeyError"
    ELSE IF \E a \in DOMAIN fields[entry_type]["attributes"] :
                fields[entry_type]["attributes"][a] >= Len(entry_data)
    THEN "IndexError"
    ELSE IF Len(entry_data) < 4 THEN "IndexError"
    ELSE IF parent_type = GROUP /\ get_group_type(onto_defs, entry_data[4])
                                      \notin {"annotation", "link"}
    THEN get_group_type(onto_defs, entry_data[4])
    ELSE ""

\* The error of one bucket: of its classification, else of its first bad array.
BucketErr(onto_defs, fields, bucket) ==
    LET parent_type == get_entry_type(onto_defs, bucket.name) IN
    IF parent_type = RecursionError THEN RecursionError
    ELSE IF parent_type \notin {ANNOTATION, LINK, GROUP} THEN ""
    ELSE FirstErr([i \in DOMAIN bucket.list |->
            CompactErr(onto_defs, fields, bucket.name, parent_type, bucket.list[i])])

CompactAttributes(fields, entry_type, entry_data) ==
    [a \in DOMAIN fields[entry_type]["attributes"] |->
        entry_data[fields[entry_type]["attributes"][a] + 1]]

CompactAnnotation(fields, entry_type, entry_data) ==
    [span |-> [begin |-> entry_data[1], end |-> entry_data[2]],
     id |-> str(entry_data[3]),
     legendId |-> entry_data[4],
     attributes |-> CompactAttributes(fields, entry_type, entry_data)]

CompactLink(fields, entry_type, entry_data) ==
    [id |-> str(entry_data[3]),
     fromEntryId |-> str(entry_data[1]),
     toEntryId |-> str(entry_data[2]),
     legendId |-> entry_data[4],
     attributes |-> CompactAttributes(fields, entry_type, entry_data)]

CompactGroup(onto_defs, fields, entry_type, entry_data) ==
    [id |-> str(entry_data[3]),
     members |-> StrAll(entry_data[2]),
     memberType |-> get_group_type(onto_defs, entry_data[4]),
     legendId |-> entry_data[4],
     attributes |-> CompactAttributes(fields, entry_type, entry_data)]

\* The normalized entries of the buckets that classify as kind, in bucket order.
CompactOfKind(onto_defs, fields, entries, kind) ==
    Flatten([b \in DOMAIN entries |->
        IF get_entry_type(onto_defs, entries[b].name) # kind THEN <<>>
        ELSE [i \in DOMAIN entries[b].list |->
                IF kind = ANNOTATION
                THEN CompactAnnotation(fields, entries[b].name, entries[b].list[i])
                ELSE IF kind = LINK
                THEN CompactLink(fields, entries[b].name, entries[b].list[i])
                ELSE CompactGroup(onto_defs, fields, entries[b].name, entries[b].list[i])]])

DecodeCompact(pack_json, onto_defs) ==
    IF ~({"fields", "entries"} \subseteq DOMAIN pack_json)
    THEN [ok |-> FALSE, err |-> "KeyError"]
    ELSE
    LET fields == pack_json["fields"]
        entries == pack_json["entries"]
        err == FirstErr([b \in DOMAIN entries |-> BucketErr(onto_defs, fields, entries[b])])
    IN IF err # "" THEN [ok |-> FALSE, err |-> err]
       ELSE [ok |-> TRUE, err |-> "",
             annotations |-> CompactOfKind(onto_defs, fields, entries, ANNOTATION),
             links |-> CompactOfKind(onto_defs, fields, entries, LINK),
             groups |-> CompactOfKind(onto_defs, fields, entries, GROUP)]

\* The pack-level attributes of the returned dict: pack_json["meta"]["py/state"]
\* when the pack has "meta", else pack_json["_meta"]["py/state"]; the key whose
\* lookup raises KeyError is reported as a missing value.
HasPackAttributes(pack_json) ==
    IF "meta" \in DOMAIN pack_json
    THEN "py/state" \in DOMAIN pack_json["meta"]
    ELSE "_meta" \in DOMAIN pack_json /\ "py/state" \in DOMAIN pack_json["_meta"]

PackAttributes(pack_json) ==
    IF "meta" \in DOMAIN pack_json
    THEN pack_json["meta"]["py/state"]
    ELSE pack_json["_meta"]["py/state"]

\* transform_pack: the normalized pack, or the exception raised. The returned
\* dict is built after the entries are decoded: "text" first, "attributes" last.
transform_pack(pack_json, raw_ontology) ==
    IF ~Parseable(pack_json) THEN [ok |-> FALSE, err |-> "JSONDecodeError"] ELSE
    LET onto_defs == OntoDefinitions(raw_ontology)
        body == IF transform_is_legacy(pack_json)
                THEN DecodeLegacy(pack_json, onto_defs)
                ELSE DecodeCompact(pack_json, onto_defs)
    IN IF ~body.ok THEN body
       ELSE IF "_text" \notin DOMAIN pack_json \/ ~HasPackAttributes(pack_json)
       THEN [ok |-> FALSE, err |-> "KeyError"]
       ELSE [ok |-> TRUE, err |-> "",
             text |-> pack_json["_text"],
             annotations |-> body.annotations,
             links |-> body.links,
             groups |-> body.groups,
             attributes |-> PackAttributes(pack_json)]

----------------------------------------------------------------------------
(* doc.textPack = json.dumps(pack_json); doc.save() *)

\* Mutant: the in-memory pack is written back whether or not the handler raised.
Save_Always(stored, outcome) == outcome.pack_json

\* The text in the store after the handler: the statement that saves is the
\* handler's last, so a handler that raised has saved nothing.
Save(stored, outcome) == IF outcome.ok THEN outcome.pack_json ELSE stored

----------------------------------------------------------------------------
(* Inputs: ontologies, entries, documents *)

Def(entry_name, parent_entry) ==
    [entry_name |-> entry_name, parent_entry |-> parent_entry]

\* Note and Tok are annotations (Tok through Note), Rel a link, Grp a group of
\* Notes; CycA and CycB are each other's parent; Dangling's parent is undefined.
Ontology(note_attrs) ==
    << Def("Note", AnnotationRoot) @@
          [attributes |-> [i \in DOMAIN note_attrs |-> [name |-> note_attrs[i]]]],
       Def("Tok", "Note"),
       Def("Rel", LinkRoot),
       Def("Grp", GroupRoot) @@ [member_type |-> "Note"],
       Def("CycA", "CycB"),
       Def("CycB", "CycA"),
       Def("Dangling", "Missing") >>

\* The project's ontology as a call may find it: attribute b is declared later.
Ontologies == {Ontology(<<"a">>), Ontology(<<"a", "b">>)}

Tagged(type, state) == ("py/object" :> type) @@ ("py/state" :> state)

AnnState(tid, begin, end) == [_tid |-> tid, _span |-> [begin |-> begin, end |-> end]]
LinkState(tid, parent, child) == [_tid |-> tid, _parent |-> parent, _child |-> child]

\* The entries a request may carry: two Notes with one id and different
\* attributes, a second annotation type, a link, a group, and a type whose
\* parent chain is a cycle.
Entries ==
    { Tagged("Note", AnnState(1, 0, 5) @@ [a |-> "x", b |-> "z"]),
      Tagged("Note", AnnState(1, 0, 5) @@ [a |-> "y"]),
      Tagged("Tok", AnnState(2, 3, 5)),
      Tagged("Rel", LinkState(1, 1, 2)),
      Tagged("Grp", [_tid |-> 2, _members |-> <<1>>]),
      Tagged("CycA", AnnState(1, 0, 5)) }

\* The ids and kinds a delete request may carry.
Tids == {str(1), str(2)}
Kinds == {ANNOTATION, LINK}

\* The orders in which list(set(names)) may enumerate a set of names.
Orders(S) == {o \in [1..Cardinality(S) -> S] : \A i, j \in DOMAIN o : o[i] = o[j] => i = j}

FormatVersion(release) ==
    str(release[1]) \o <<".">> \o str(release[2]) \o <<".">> \o str(release[3])

NoFields == [t \in {} |-> [attributes |-> [a \in {} |-> 0]]]

\* The pack's meta record, stored under "_meta" or, in later formats, "meta".
Meta == ("py/state" :> [language |-> "eng"])

\* Documents in the legacy layout: two without pack_version, one of them
\* without a meta record, and one of version 0.0.1 that holds a group and an
\* annotation without a state record.
LegacyDocs ==
    { [_text |-> "t", _meta |-> Meta,
       annotations |-> <<>>, links |-> <<>>, groups |-> <<>>],
      [_text |-> "t", annotations |-> <<>>, links |-> <<>>, groups |-> <<>>],
      [pack_version |-> FormatVersion(<<0, 0, 1>>), _text |-> "t", _meta |-> Meta,
       annotations |-> <<("py/object" :> "Note")>>, links |-> <<>>,
       groups |-> <<Tagged("Grp", [_tid |-> 3, _members |-> <<1, 2>>])>>] }

\* Documents in the compact layout, as the data store writes them: the slots
\* of a type are 4, 5, ... and every array has them all.
CompactDocs ==
    { [pack_version |-> FormatVersion(<<0, 0, 2>>), _text |-> "t", _meta |-> Meta,
       fields |-> NoFields, entries |-> <<>>],
      [pack_version |-> FormatVersion(<<0, 0, 10>>), _text |-> "t", meta |-> Meta,
       fields |-> ("Note" :> [attributes |-> [a |-> 4]])
                  @@ ("Grp" :> [attributes |-> [a \in {} |-> 0]]),
       entries |-> << [name |-> "Grp", list |-> << <<0, <<1>>, 3, "Grp">> >>],
                      [name |-> "Note", list |-> <<>>] >>],
      [pack_version |-> FormatVersion(<<0, 1, 0>>), _text |-> "t", meta |-> Meta,
       fields |-> ("Tok" :> [attributes |-> [a \in {} |-> 0]]),
       entries |-> << [name |-> "Tok", list |-> << <<0, 2, 1, "Tok">> >>] >>] }

Unparseable == [garbage |-> "{"]

Docs == LegacyDocs \cup CompactDocs \cup {Unparseable}

\* Number of entries in a stored document.
RECURSIVE SumLen(_)
SumLen(ss) == IF ss = <<>> THEN 0 ELSE Len(Head(ss)) + SumLen(Tail(ss))

TotalEntries(pack_json) ==
    IF "entries" \in DOMAIN pack_json
    THEN SumLen([b \in DOMAIN pack_json["entries"] |-> pack_json["entries"][b].list])
    ELSE IF "annotations" \in DOMAIN pack_json
    THEN Len(pack_json["annotations"]) + Len(pack_json["links"]) + Len(pack_json["groups"])
    ELSE 0

----------------------------------------------------------------------------
(* The handlers, one call at a time *)

Procs == {1, 2}

NoCall == [op |-> "none"]

Init ==
    /\ textPack \in Docs
    /\ last = NoCall
    /\ pc = [p \in Procs |-> "idle"]
    /\ fetched = [p \in Procs |-> [epoch |-> 0]]
    /\ hist = <<>>

conc == <<pc, fetched, hist>>

\* add_entry_to_doc(doc, entry) with the project's ontology as it is now.
AddEntry ==
    \E entry \in Entries, raw_ontology \in Ontologies :
    \E attr_order \in Orders(get_attribute_names(OntoDefinitions(raw_ontology),
                                                 entry["py/object"])) :
        LET out == add_entry_to_doc(textPack, raw_ontology, entry, attr_order) IN
        /\ TotalEntries(textPack) < MaxEntries
        /\ textPack' = Save(textPack, out)
        /\ last' = [op |-> "add", entry |-> entry, raw_ontology |-> raw_ontology,
                    attr_order |-> attr_order, before |-> textPack, out |-> out]
        /\ UNCHANGED conc

\* edit_entry_in_doc(doc, entry).
EditEntry ==
    \E entry \in Entries, raw_ontology \in Ontologies :
        LET out == edit_entry_in_doc(textPack, raw_ontology, entry) IN
        /\ textPack' = Save(textPack, out)
        /\ last' = [op |-> "edit", entry |-> entry, raw_ontology |-> raw_ontology,
                    before |-> textPack, out |-> out]
        /\ UNCHANGED conc

\* delete_entry_from_doc(doc, entry_tid, parent_type).
DeleteEntry ==
    \E entry_tid \in Tids, parent_type \in Kinds, raw_ontology \in Ontologies :
        LET out == delete_entry_from_doc(textPack, raw_ontology, entry_tid, parent_type) IN
        /\ textPack' = Save(textPack, out)
        /\ last' = [op |-> "delete", entry_tid |-> entry_tid, parent_type |-> parent_type,
                    raw_ontology |-> raw_ontology, before |-> textPack, out |-> out]
        /\ UNCHANGED conc

\* transform_pack(doc.textPack, ontology): reads, saves nothing.
TransformPack ==
    \E raw_ontology \in Ontologies :
        /\ last' = [op |-> "decode", raw_ontology |-> raw_ontology, before |-> textPack,
                    out |-> transform_pack(textPack, raw_ontology)]
        /\ UNCHANGED <<textPack, conc>>

Next == AddEntry \/ EditEntry \/ DeleteEntry \/ TransformPack

Spec == Init /\ [][Next]_vars

----------------------------------------------------------------------------
(* Concurrent requests: a view fetches the Document (fetch_doc_check_perm,   *)
(* line 32) and then runs a handler on the object it fetched.                *)

\* The mutations the concurrent requests perform.
ConcWork ==
    UNION { { [op |-> "add", entry |-> e, raw_ontology |-> Ontology(<<"a">>),
               attr_order |-> o] :
                o \in Orders(get_attribute_names(OntoDefinitions(Ontology(<<"a">>)),
                                                 e["py/object"])) } :
            e \in { Tagged("Note", AnnState(1, 0, 5) @@ [a |-> "x", b |-> "z"]),
                    Tagged("Rel", LinkState(1, 1, 2)),
                    Tagged("Tok", AnnState(2, 3, 5)) } }
    \cup
    { [op |-> "delete", entry_tid |-> str(1), parent_type |-> ANNOTATION,
       raw_ontology |-> Ontology(<<"a">>)] }

\* The handler named by a unit of work, applied to a pack.
Apply(w, pack_json) ==
    IF w.op = "add"
    THEN add_entry_to_doc(pack_json, w.raw_ontology, w.entry, w.attr_order)
    ELSE delete_entry_from_doc(pack_json, w.raw_ontology, w.entry_tid, w.parent_type)

\* Mutant: the handler re-reads the store when it starts.
HandlerInput_Refreshed(p) == textPack

\* model_to_dict(doc)['textPack']: the text of the Document object the handler
\* was given, as it was when the view fetched it.
HandlerInput(p) == fetched[p].textPack

\* hist[1] records the document before any request; hist[k + 1] the k-th save.
InitConc ==
    /\ textPack \in { [_text |-> "t", _meta |-> Meta,
                       annotations |-> <<>>, links |-> <<>>, groups |-> <<>>],
                      [pack_version |-> FormatVersion(<<0, 0, 2>>), _text |-> "t",
                       _meta |-> Meta, fields |-> NoFields, entries |-> <<>>] }
    /\ last = NoCall
    /\ pc = [p \in Procs |-> "idle"]
    /\ fetched = [p \in Procs |-> [epoch |-> 0]]
    /\ hist = <<[proc |-> 0, after |-> textPack]>>

\* get_object_or_404(Document, pk=id): the request gets its own copy.
Fetch(p) ==
    /\ pc[p] = "idle"
    /\ Len(hist) <= MaxSaves
    /\ fetched' = [fetched EXCEPT ![p] = [epoch |-> Len(hist) - 1, textPack |-> textPack]]
    /\ pc' = [pc EXCEPT ![p] = "fetched"]
    /\ UNCHANGED <<textPack, last, hist>>

\* The handler runs to its end on the fetched copy and saves the whole text.
Handle(p) ==
    /\ pc[p] = "fetched"
    /\ \E w \in ConcWork :
        LET out == Apply(w, HandlerInput(p)) IN
        /\ textPack' = Save(textPack, out)
        /\ hist' = IF out.ok
                   THEN Append(hist, [proc |-> p, work |-> w, epoch |-> fetched[p].epoch,
                                      after |-> textPack'])
                   ELSE hist
    /\ pc' = [pc EXCEPT ![p] = "idle"]
    /\ UNCHANGED <<fetched, last>>

NextConc == \E p \in Procs : Fetch(p) \/ Handle(p)

SpecConc == InitConc /\ [][NextConc]_vars

----------------------------------------------------------------------------
(* Vocabulary of the properties *)

TypeOf(entry) == entry["py/object"]
TidOf(entry) == entry["py/state"]["_tid"]
KindOf(raw_ontology, entry_type) == get_entry_type(OntoDefinitions(raw_ontology), entry_type)

IsLegacyDoc(pack_json) == Parseable(pack_json) /\ "annotations" \in DOMAIN pack_json
IsCompactDoc(pack_json) == Parseable(pack_json) /\ "entries" \in DOMAIN pack_json

ListName(kind) == IF kind = ANNOTATION THEN "annotations" ELSE "links"

\* Every annotation and link of a legacy document has a state record with an id.
AllHaveIds(pack_json) ==
    IsLegacyDoc(pack_json) =>
        /\ \A i \in DOMAIN pack_json["annotations"] : HasTid(pack_json["annotations"][i])
        /\ \A i \in DOMAIN pack_json["links"] : HasTid(pack_json["links"][i])

TypeNames == {"Note", "Tok", "Rel", "Grp", "CycA", "CycB", "Dangling"}

\* The list of one bucket of a compact document, empty when there is no bucket.
BucketList(pack_json, entry_type) ==
    IF BucketPos(pack_json["entries"], entry_type) = 0 THEN <<>>
    ELSE pack_json["entries"][BucketPos(pack_json["entries"], entry_type)].list

\* The entry lists of a document, by list name or by entry type.
EntryLists(pack_json) ==
    IF IsLegacyDoc(pack_json)
    THEN <<pack_json["annotations"], pack_json["links"], pack_json["groups"]>>
    ELSE [t \in TypeNames |-> BucketList(pack_json, t)]

FieldsOf(pack_json) ==
    IF Parseable(pack_json) /\ "fields" \in DOMAIN pack_json THEN pack_json["fields"]
    ELSE NoFields

IsMutation == last.op \in {"add", "edit", "delete"}

----------------------------------------------------------------------------
(* C1: delete removes exactly the last occurrence of the id *)

\* Where entries of the kind with the id are: <<0, i>> in the legacy list,
\* <<b, i>> in bucket b of the compact format.
C1_Occurrences(pack_json, raw_ontology, entry_tid, kind) ==
    IF IsLegacyDoc(pack_json)
    THEN {<<0, i>> : i \in {i \in DOMAIN pack_json[ListName(kind)] :
                str(TidOf(pack_json[ListName(kind)][i])) = entry_tid}}
    ELSE UNION {
            {<<b, i>> : i \in {i \in DOMAIN pack_json["entries"][b].list :
                str(pack_json["entries"][b].list[i][3]) = entry_tid}} :
            b \in {b \in DOMAIN pack_json["entries"] :
                    KindOf(raw_ontology, pack_json["entries"][b].name) = kind}}

\* The last occurrence in forward scan order.
C1_LastOf(occ) ==
    CHOOSE o \in occ : \A q \in occ : q[1] < o[1] \/ (q[1] = o[1] /\ q[2] <= o[2])

\* The document without the entry at an occurrence.
C1_Without(pack_json, kind, o) ==
    IF IsLegacyDoc(pack_json)
    THEN [pack_json EXCEPT ![ListName(kind)] = DelAt(@, o[2] - 1)]
    ELSE [pack_json EXCEPT !["entries"][o[1]].list = DelAt(@, o[2] - 1)]

\* C1: a delete of an id that some entry of the kind has succeeds and saves
\* the document without the last such entry in forward scan order; every
\* other entry, in every list and bucket, stays where it was.
C1_DeleteRemovesLastOnly ==
    (/\ last.op = "delete"
     /\ Parseable(last.before)
     /\ AllHaveIds(last.before)
     /\ C1_Occurrences(last.before, last.raw_ontology, last.entry_tid, last.parent_type) # {})
    => /\ last.out.ok
       /\ textPack = C1_Without(last.before, last.parent_type,
              C1_LastOf(C1_Occurrences(last.before, last.raw_ontology,
                                       last.entry_tid, last.parent_type)))

----------------------------------------------------------------------------
(* C2: edit replaces the first match and nothing else *)

\* The document with the first element whose id matches replaced by the entry.
C2_Expected(pack_json, raw_ontology, entry) ==
    IF IsLegacyDoc(pack_json)
    THEN IF KindOf(raw_ontology, TypeOf(entry)) \notin {ANNOTATION, LINK} THEN pack_json
         ELSE LET ln == ListName(KindOf(raw_ontology, TypeOf(entry)))
                  hits == {i \in DOMAIN pack_json[ln] :
                              str(TidOf(pack_json[ln][i])) = str(TidOf(entry))}
              IN IF hits = {} THEN pack_json
                 ELSE [pack_json EXCEPT ![ln][Min(hits)] = entry]
    ELSE LET b == BucketPos(pack_json["entries"], TypeOf(entry))
             hits == IF b = 0 THEN {}
                     ELSE {i \in DOMAIN pack_json["entries"][b].list :
                            str(pack_json["entries"][b].list[i][3]) = str(TidOf(entry))}
         IN IF hits = {} THEN pack_json
            ELSE [pack_json EXCEPT !["entries"][b].list[Min(hits)] = entry]

\* C2: an edit completes, and saves the document with the element at the
\* first matching index of the entry's list or bucket replaced and every other
\* element, later ones with the same id included, unchanged; the document is
\* unchanged when no id matches.
C2_EditReplacesFirstOnly ==
    (/\ last.op = "edit"
     /\ Parseable(last.before)
     /\ AllHaveIds(last.before)
     /\ KindOf(last.raw_ontology, TypeOf(last.entry)) # RecursionError)
    => /\ last.out.ok
       /\ textPack = C2_Expected(last.before, last.raw_ontology, last.entry)

----------------------------------------------------------------------------
(* C3: add then delete restores the entry lists *)

\* C3: when an add of an annotation or link entry is followed by the delete
\* of its id and kind, every entry list of the document is what it was before
\* the add.
C3_AddThenDeleteRestores ==
    [][ (/\ last.op = "add"
         /\ last.out.ok
         /\ AllHaveIds(last.before)
         /\ KindOf(last.raw_ontology, TypeOf(last.entry)) \in {ANNOTATION, LINK}
         /\ last'.op = "delete"
         /\ last'.entry_tid = str(TidOf(last.entry))
         /\ last'.parent_type = KindOf(last.raw_ontology, TypeOf(last.entry)))
        => EntryLists(textPack') = EntryLists(last.before) ]_vars

----------------------------------------------------------------------------
(* C4: classification of a cyclic or dangling parent chain *)

\* The names on the parent chain of a type, found with a visited set.
RECURSIVE C4_Chain(_, _, _)
C4_Chain(onto_defs, entry_name, seen) ==
    IF entry_name \in seen \/ DefGet(onto_defs, entry_name, "parent_entry") = ""
    THEN seen \cup {entry_name}
    ELSE C4_Chain(onto_defs, DefGet(onto_defs, entry_name, "parent_entry"),
                  seen \cup {entry_name})

\* C4: the classification of the entry type of a call returns a kind, and
\* returns unknown when none of the three roots is on the parent chain.
C4_ClassifyReturnsUnknown ==
    (last.op \in {"add", "edit"} /\ Parseable(last.before)) =>
        LET onto_defs == OntoDefinitions(last.raw_ontology)
            kind == get_entry_type(onto_defs, TypeOf(last.entry))
        IN /\ kind \in {ANNOTATION, LINK, GROUP, UNKNOWN}
           /\ C4_Chain(onto_defs, TypeOf(last.entry), {})
                 \cap {AnnotationRoot, LinkRoot, GroupRoot} = {} => kind = UNKNOWN

----------------------------------------------------------------------------
(* C5: the field schema of a type never changes once it exists *)

\* C5: no step changes, extends or removes the slot map of a type that has one.
C5_FieldsStable ==
    [][ \A t \in DOMAIN FieldsOf(textPack) :
            /\ t \in DOMAIN FieldsOf(textPack')
            /\ FieldsOf(textPack')[t] = FieldsOf(textPack)[t] ]_vars

\* An add of a Note carrying attribute b succeeded on a document whose Note
\* schema has no slot for b, under an ontology that declares b.
C5_Witness ==
    /\ last.op = "add"
    /\ last.out.ok
    /\ TypeOf(last.entry) = "Note"
    /\ "Note" \in DOMAIN FieldsOf(last.before)
    /\ "b" \in DOMAIN last.entry["py/state"]
    /\ "b" \in get_attribute_names(OntoDefinitions(last.raw_ontology), "Note")
    /\ "b" \notin DOMAIN FieldsOf(textPack)["Note"]["attributes"]
    /\ Len(BucketList(textPack, "Note")) = Len(BucketList(last.before, "Note")) + 1

----------------------------------------------------------------------------
(* C6: add of an unseen type allocates slots in order and decodes back *)

\* The normalized entry decode must yield for the entry that was added.
C6_Decoded(n, entry, kind, names) ==
    LET st == entry["py/state"] IN
    /\ n.id = str(st["_tid"])
    /\ n.legendId = TypeOf(entry)
    /\ IF kind = ANNOTATION
       THEN n.span = [begin |-> st["_span"]["begin"], end |-> st["_span"]["end"]]
       ELSE /\ n.fromEntryId = str(st["_parent"])
            /\ n.toEntryId = str(st["_child"])
    /\ \A a \in names \cap DOMAIN st :
            a \in DOMAIN n.attributes /\ n.attributes[a] = st[a]

\* C6: after a compact add of an annotation or link entry whose type had no
\* field schema, the schema maps the i-th enumerated attribute name to slot
\* 4 + i, and decode of the stored document yields exactly one entry of that
\* type: the added one, with its kind-specific fields and carried attributes.
C6_AddNewTypeDecodes ==
    (/\ last.op = "add"
     /\ last.out.ok
     /\ IsCompactDoc(last.before)
     /\ TypeOf(last.entry) \notin DOMAIN FieldsOf(last.before)
     /\ KindOf(last.raw_ontology, TypeOf(last.entry)) \in {ANNOTATION, LINK})
    => LET t == TypeOf(last.entry)
           kind == KindOf(last.raw_ontology, t)
           names == get_attribute_names(OntoDefinitions(last.raw_ontology), t)
           dec == transform_pack(textPack, last.raw_ontology)
       IN /\ t \in DOMAIN FieldsOf(textPack)
          /\ DOMAIN FieldsOf(textPack)[t]["attributes"] = names
          /\ \A i \in DOMAIN last.attr_order :
                FieldsOf(textPack)[t]["attributes"][last.attr_order[i]] = 4 + (i - 1)
          /\ dec.ok
          /\ LET out == IF kind = ANNOTATION THEN dec.annotations ELSE dec.links
                 mine == {k \in DOMAIN out : out[k].legendId = t}
             IN /\ Cardinality(mine) = 1
                /\ \A k \in mine : C6_Decoded(out[k], last.entry, kind, names)

----------------------------------------------------------------------------
(* C7: a failed mutation leaves the stored text untouched *)

\* C7: after a handler that raised, the stored text is the text it loaded;
\* after one that returned, it is the complete re-serialized pack.
C7_AllOrNothing ==
    IsMutation =>
        /\ ~last.out.ok => textPack = last.before
        /\ last.out.ok => textPack = last.out.pack_json

\* A handler raised after it had changed its in-memory pack.
C7_Witness ==
    /\ IsMutation
    /\ ~last.out.ok
    /\ last.out.pack_json # last.before

----------------------------------------------------------------------------
(* C8: version dispatch at the 0.0.2 cutoff *)

Releases == {<<0, 0, 1>>, <<0, 0, 2>>, <<0, 0, 10>>, <<0, 1, 0>>}

\* The release a document's pack_version was written from; 0.0.0 when absent.
ReleaseOf(pack_json) ==
    IF "pack_version" \notin DOMAIN pack_json THEN <<0, 0, 0>>
    ELSE CHOOSE r \in Releases : FormatVersion(r) = pack_json["pack_version"]

BelowCutoff(r) == r[1] = 0 /\ r[2] = 0 /\ r[3] < 2

\* C8: the four operations take the legacy branch exactly for the documents
\* whose release is below 0.0.2 (or absent), and an add of an annotation or
\* link entry lands in the legacy list or in the compact bucket accordingly.
C8_VersionDispatch ==
    /\ Parseable(textPack) =>
        /\ transform_is_legacy(textPack) = BelowCutoff(ReleaseOf(textPack))
        /\ add_is_legacy(textPack) = BelowCutoff(ReleaseOf(textPack))
        /\ edit_is_legacy(textPack) = BelowCutoff(ReleaseOf(textPack))
        /\ delete_is_legacy(textPack) = BelowCutoff(ReleaseOf(textPack))
    /\ (/\ last.op = "add"
        /\ Parseable(last.before)
        /\ KindOf(last.raw_ontology, TypeOf(last.entry)) \in {ANNOTATION, LINK})
       => LET ln == ListName(KindOf(last.raw_ontology, TypeOf(last.entry))) IN
          /\ last.out.ok
          /\ IF BelowCutoff(ReleaseOf(last.before))
             THEN textPack[ln] = Append(last.before[ln], last.entry)
             ELSE Len(BucketList(textPack, TypeOf(last.entry)))
                    = Len(BucketList(last.before, TypeOf(last.entry))) + 1

\* An add succeeded on a document of version 0.0.10 and filled a compact bucket.
C8_Witness ==
    /\ last.op = "add"
    /\ last.out.ok
    /\ Parseable(last.before)
    /\ ReleaseOf(last.before) = <<0, 0, 10>>
    /\ Len(BucketList(textPack, "Tok")) = Len(BucketList(last.before, "Tok")) + 1

----------------------------------------------------------------------------
(* C9: concurrent mutations are read-modify-write on the whole document *)

\* The stored text after the j-th save.
StoredAfter(j) == hist[j + 1].after

IsGrowingAdd(h) ==
    /\ h.work.op = "add"
    /\ KindOf(h.work.raw_ontology, TypeOf(h.work.entry)) \in {ANNOTATION, LINK}

\* C9: every save stores the handler's result on the text its request
\* fetched, whole.  A request that fetched before the previous save stores a
\* document without that save's change; one that fetched after it stores a
\* document with both changes.
C9_LostUpdate ==
    /\ textPack = hist[Len(hist)].after
    /\ \A k \in 2..Len(hist) :
        /\ hist[k].after = Apply(hist[k].work, StoredAfter(hist[k].epoch)).pack_json
        /\ (k >= 3 /\ IsGrowingAdd(hist[k]) /\ IsGrowingAdd(hist[k - 1])) =>
            IF hist[k].epoch < k - 2
            THEN TotalEntries(hist[k].after) = TotalEntries(StoredAfter(hist[k].epoch)) + 1
            ELSE TotalEntries(hist[k].after)
                    = TotalEntries(StoredAfter(hist[k - 1].epoch)) + 2

\* Two requests fetched the first document, each added an entry and saved:
\* the stored document holds one entry more, not two.
C9_Witness ==
    /\ Len(hist) = 3
    /\ hist[2].proc # hist[3].proc
    /\ hist[2].epoch = 0 /\ hist[3].epoch = 0
    /\ IsGrowingAdd(hist[2]) /\ IsGrowingAdd(hist[3])
    /\ hist[2].work.entry # hist[3].work.entry
    /\ TotalEntries(textPack) = TotalEntries(StoredAfter(0)) + 1
    /\ textPack # Apply(hist[3].work, hist[2].after).pack_json

----------------------------------------------------------------------------
(* C10: well-formedness of the compact format *)

\* C10: in a stored compact document every array of every bucket has the four
\* prefix columns and a column for each slot of its type, every bucket's type
\* has a field schema, and decode succeeds.
C10_CompactWellFormed ==
    IsCompactDoc(textPack) =>
        /\ \A b \in DOMAIN textPack["entries"] :
            LET t == textPack["entries"][b].name IN
            /\ t \in DOMAIN textPack["fields"]
            /\ \A i \in DOMAIN textPack["entries"][b].list :
                 Len(textPack["entries"][b].list[i])
                    >= 4 + Cardinality(DOMAIN textPack["fields"][t]["attributes"])
        /\ \A raw_ontology \in Ontologies : transform_pack(textPack, raw_ontology).ok

====
